---- MODULE Spec2Model ----
(***************************************************************************)
(* Training Generator agent: the planner / tools control loop of           *)
(* src/src/agents/training_generator.                                      *)
(*                                                                         *)
(* The Collected State (TrainingGeneratorState) is the record `state`.     *)
(* Entities are represented by their identifiers (naturals); the           *)
(* attributes the code reads from an entity (score, top-level module) are  *)
(* functions of the identifier.  The rendered document is a non-empty      *)
(* tuple, the empty string is the empty tuple.  External collaborators     *)
(* (vector index, text-generation capability) are nondeterministic inputs  *)
(* of the steps.  The informational fields user_request and story_doc_map  *)
(* are never read or written by a node and are left out.                   *)
(*                                                                         *)
(* Specifications: Spec and FairSpec (a run from create_initial_state),    *)
(* SpecAny (the nodes applied from any Collected State), SpecFail (a run   *)
(* in which an external call can raise), SpecA (scenario A's corpus) and   *)
(* SpecFilter (the relevance filter called directly; `call` holds the      *)
(* invocation and its outcome).  The remaining specifications call one     *)
(* function directly and keep the invocation in `probe`.                   *)
(***************************************************************************)
EXTENDS Integers, Sequences, FiniteSets, TLC

VARIABLES state, pc, last, nPlanner, nTools, iterAtPlan, call, probe, peer

vars == <<state, pc, last, nPlanner, nTools, iterAtPlan, call, probe, peer>>

----------------------------------------------------------------------------
(* Bounds of the model *)

NStories == 1
NDocs == 1
NTests == 1
MaxIdxLen == 1
MaxCeilAny == 1
MaxClock == 1
MaxIds == 2

(* Program constants *)

MaxIterations == 8
MinArtifacts == 3
MaxResults == 10
SearchTopK == 10
(* config.MIN_RELEVANCE_SCORE = 0.7; scores are counted in tenths *)
MinRelevanceScore == 7

StoryIds == 1..NStories
DocIds == 1..NDocs
TestIds == 1..NTests

None == "None"
UserModule == "Payment"
OtherModule == "Payment Processing"
InsufficientData == "Failed to collect sufficient training data"

----------------------------------------------------------------------------
(* Sequence helpers *)

Range(s) == {s[i] : i \in DOMAIN s}

SeqsUpTo(S, n) == UNION {[1..k -> S] : k \in 0..n}

DistinctSeqs(S) == {s \in SeqsUpTo(S, Cardinality(S)) : Cardinality(Range(s)) = Len(s)}

Min(a, b) == IF a < b THEN a ELSE b

----------------------------------------------------------------------------
(* Entity attributes read by the relevance filter *)

Score(e) == IF e = 1 THEN 1 ELSE 0

(* item.get('module') on a retrieved entity: rag_tools.py builds each      *)
(* entity with its module under 'metadata', so the top-level key is absent *)
EntityModule(e) == None

(* entity['metadata']['module']: the module recorded in the index payload  *)
MetadataModule(e) == IF e = 1 THEN UserModule ELSE OtherModule

----------------------------------------------------------------------------
(* The state after construction.  generation_timestamp is the clock       *)
(* reading datetime.now() at construction; a run's clock origin is its     *)
(* construction.                                                           *)

CreationTime == 0

create_initial_state(module_name) ==
    [ module_name           |-> module_name,
      iteration             |-> 0,
      max_iterations        |-> MaxIterations,
      current_action        |-> "initialize",
      reasoning             |-> "Starting training generation process",
      gathering_complete    |-> FALSE,
      stories               |-> <<>>,
      documentation         |-> <<>>,
      test_cases            |-> <<>>,
      story_test_map        |-> <<>>,
      queries_made          |-> <<>>,
      markdown_output       |-> <<>>,
      generation_timestamp  |-> CreationTime,
      total_artifacts_found |-> 0,
      error_message         |-> None ]

(* Channels whose reducer is operator.add; every other channel is replaced *)
AddFields == {"stories", "documentation", "test_cases", "queries_made"}

(* Variant: every channel is replaced by the returned value *)
Merge_replace_all(s, u) ==
    [k \in DOMAIN s |-> IF k \in DOMAIN u THEN u[k] ELSE s[k]]

Merge(s, u) ==
    [k \in DOMAIN s |->
        IF k \in DOMAIN u
        THEN IF k \in AddFields THEN s[k] \o u[k] ELSE u[k]
        ELSE s[k]]

----------------------------------------------------------------------------
(* Planner node: planner(state) -> Command(goto, update).  `d` is the      *)
(* decision the structured LLM returns when the fallback consults it.      *)

Actions == {"search_stories", "search_docs", "find_relationships",
            "fetch_test_details", "generate_markdown", "complete"}

Queries == {None, "", "payment stories"}

EntityIdLists == {None, <<>>, <<1>>}

RelationshipTypes == {None, "tested_by"}

Decisions ==
    [ action            : Actions,
      query             : Queries,
      entity_ids        : EntityIdLists,
      relationship_type : RelationshipTypes ]

Truthy(x) == x # None /\ x # ""

(* validate_state(state) -> (is_valid, error_message) *)
validate_state(s) ==
    IF s.iteration > s.max_iterations
    THEN <<FALSE, "Iteration count exceeds max">>
    ELSE IF ~Truthy(s.module_name)
    THEN <<FALSE, "Module name is empty">>
    ELSE IF s.current_action \notin
              {"initialize", "search_stories", "search_docs", "find_relationships",
               "fetch_test_details", "generate_markdown", "complete"}
    THEN <<FALSE, "Invalid action">>
    ELSE IF s.gathering_complete /\ Len(s.stories) = 0
    THEN <<FALSE, "Gathering complete but no stories collected">>
    ELSE <<TRUE, None>>

(* `not decision.entity_ids or len(decision.entity_ids) == 0` *)
NoEntityIds(d) == d.entity_ids = None \/ d.entity_ids = <<>>

(* models.py: returns (is_valid, error_message) *)
validate_planner_decision(d) ==
    IF d.action \in {"search_stories", "search_docs"} /\ ~Truthy(d.query)
    THEN <<FALSE, "requires a query">>
    ELSE IF d.action = "find_relationships" /\ NoEntityIds(d)
    THEN <<FALSE, "requires entity_ids">>
    ELSE IF d.action = "find_relationships" /\ ~Truthy(d.relationship_type)
    THEN <<FALSE, "requires relationship_type">>
    ELSE IF d.action = "fetch_test_details" /\ NoEntityIds(d)
    THEN <<FALSE, "requires entity_ids">>
    ELSE <<TRUE, None>>

MarkdownExit(s) ==
    [ goto   |-> "__end__",
      llm    |-> FALSE,
      update |-> [ current_action     |-> "complete",
                   reasoning          |-> "Training module successfully generated",
                   gathering_complete |-> TRUE ] ]

(* Variant: the ceiling check is missing *)
AtCeiling_missing(s) == FALSE

AtCeiling(s) == s.iteration >= s.max_iterations

(* Variant: available data means stories and documentation *)
HasAvailableData_needs_docs(s) == Len(s.stories) > 0 /\ Len(s.documentation) > 0

HasAvailableData(s) == Len(s.stories) > 0 \/ Len(s.documentation) > 0

(* Variant: the no-data exit forgets the error message *)
CeilingExit_no_error(s) ==
    IF HasAvailableData(s)
    THEN [ goto   |-> "tools",
           llm    |-> FALSE,
           update |-> [ current_action |-> "generate_markdown",
                        reasoning      |-> "Max iterations reached, generating with available data" ] ]
    ELSE [ goto   |-> "__end__",
           llm    |-> FALSE,
           update |-> [ current_action |-> "complete",
                        reasoning      |-> "Max iterations reached without sufficient data" ] ]

(* Variant: the ceiling always ends the run with the error *)
CeilingExit_always_error(s) ==
    [ goto   |-> "__end__",
      llm    |-> FALSE,
      update |-> [ current_action |-> "complete",
                   reasoning      |-> "Max iterations reached without sufficient data",
                   error_message  |-> InsufficientData ] ]

CeilingExit(s) ==
    IF HasAvailableData(s)
    THEN [ goto   |-> "tools",
           llm    |-> FALSE,
           update |-> [ current_action |-> "generate_markdown",
                        reasoning      |-> "Max iterations reached, generating with available data" ] ]
    ELSE [ goto   |-> "__end__",
           llm    |-> FALSE,
           update |-> [ current_action |-> "complete",
                        reasoning      |-> "Max iterations reached without sufficient data",
                        error_message  |-> InsufficientData ] ]

MapEmpty(s) == DOMAIN s.story_test_map = {}

(* Variant: the sufficiency rule is tested before the relationship rules *)
RuleAction_generate_early(s) ==
    IF Len(s.stories) = 0 THEN "search_stories"
    ELSE IF Len(s.documentation) = 0 THEN "search_docs"
    ELSE IF s.total_artifacts_found >= MinArtifacts THEN "generate_markdown"
    ELSE IF MapEmpty(s) /\ Len(s.stories) > 0 THEN "find_relationships"
    ELSE IF ~MapEmpty(s) /\ Len(s.test_cases) = 0 THEN "fetch_test_details"
    ELSE "llm"

(* Variant: the relationship rule does not test that the map is empty *)
RuleAction_remap(s) ==
    IF Len(s.stories) = 0 THEN "search_stories"
    ELSE IF Len(s.documentation) = 0 THEN "search_docs"
    ELSE IF Len(s.stories) > 0 THEN "find_relationships"
    ELSE IF ~MapEmpty(s) /\ Len(s.test_cases) = 0 THEN "fetch_test_details"
    ELSE IF s.total_artifacts_found >= MinArtifacts THEN "generate_markdown"
    ELSE "llm"

(* Variant: documentation is searched before stories *)
RuleAction_docs_first(s) ==
    IF Len(s.documentation) = 0 THEN "search_docs"
    ELSE IF Len(s.stories) = 0 THEN "search_stories"
    ELSE IF MapEmpty(s) /\ Len(s.stories) > 0 THEN "find_relationships"
    ELSE IF ~MapEmpty(s) /\ Len(s.test_cases) = 0 THEN "fetch_test_details"
    ELSE IF s.total_artifacts_found >= MinArtifacts THEN "generate_markdown"
    ELSE "llm"

(* The rule chain of planner.py: the tag of the first rule that matches,   *)
(* "llm" when none does.                                                   *)
RuleAction(s) ==
    IF Len(s.stories) = 0 THEN "search_stories"
    ELSE IF Len(s.documentation) = 0 THEN "search_docs"
    ELSE IF MapEmpty(s) /\ Len(s.stories) > 0 THEN "find_relationships"
    ELSE IF ~MapEmpty(s) /\ Len(s.test_cases) = 0 THEN "fetch_test_details"
    ELSE IF s.total_artifacts_found >= MinArtifacts THEN "generate_markdown"
    ELSE "llm"

RuleReasoning(a) ==
    CASE a = "search_stories"     -> "Need to collect user stories"
      [] a = "search_docs"        -> "Need to collect documentation"
      [] a = "find_relationships" -> "Need to find test cases linked to collected stories"
      [] a = "fetch_test_details" -> "Need to retrieve details for linked test cases"
      [] a = "generate_markdown"  -> "Sufficient data collected"

(* Variant: a rule step does not advance the counter *)
RuleStep_no_increment(s, a) ==
    [ goto   |-> "tools",
      llm    |-> FALSE,
      update |-> [ current_action |-> a,
                   reasoning      |-> RuleReasoning(a),
                   iteration      |-> s.iteration ] ]

(* Variant: a rule step also resets the artifact count *)
RuleStep_resets_count(s, a) ==
    [ goto   |-> "tools",
      llm    |-> FALSE,
      update |-> [ current_action        |-> a,
                   reasoning             |-> RuleReasoning(a),
                   iteration             |-> s.iteration + 1,
                   total_artifacts_found |-> 0 ] ]

RuleStep(s, a) ==
    [ goto   |-> "tools",
      llm    |-> FALSE,
      update |-> [ current_action |-> a,
                   reasoning      |-> RuleReasoning(a),
                   iteration      |-> s.iteration + 1 ] ]

LLMFallback(s, d) ==
    LET updates == [ current_action |-> d.action,
                     reasoning      |-> "llm decision",
                     iteration      |-> s.iteration + 1 ]
    IN [ goto   |-> IF d.action = "complete" THEN "__end__" ELSE "tools",
         llm    |-> TRUE,
         update |-> IF Truthy(d.query)
                    THEN updates @@ [queries_made |-> <<d.query>>]
                    ELSE updates ]

(* Variant: below the ceiling every decision is left to the LLM *)
planner_llm_only(s, d) ==
    IF Len(s.markdown_output) > 0 THEN MarkdownExit(s)
    ELSE IF AtCeiling(s) THEN CeilingExit(s)
    ELSE LLMFallback(s, d)

(* Variant: the ceiling is tested before the populated output *)
planner_ceiling_first(s, d) ==
    IF AtCeiling(s) THEN CeilingExit(s)
    ELSE IF Len(s.markdown_output) > 0 THEN MarkdownExit(s)
    ELSE IF RuleAction(s) # "llm" THEN RuleStep(s, RuleAction(s))
    ELSE LLMFallback(s, d)

planner(s, d) ==
    IF Len(s.markdown_output) > 0 THEN MarkdownExit(s)
    ELSE IF AtCeiling(s) THEN CeilingExit(s)
    ELSE IF RuleAction(s) # "llm" THEN RuleStep(s, RuleAction(s))
    ELSE LLMFallback(s, d)

----------------------------------------------------------------------------
(* Relevance filter: llm_filter_results(user_query, search_results, ...).  *)
(* `resp` is what the text-generation capability did with the prompt.      *)

(* Python list indexing: search_results[idx] for any int idx *)
PyIndexOk(xs, idx) == idx < Len(xs) /\ idx >= -Len(xs)

PyIndex(xs, idx) == IF idx >= 0 THEN xs[idx + 1] ELSE xs[Len(xs) + idx + 1]

(* Variant: the selection loop does not stop at max_results *)
RECURSIVE FilterLoop_no_break(_, _, _, _)
FilterLoop_no_break(xs, indices, filtered, max_results) ==
    IF indices = <<>> THEN [raised |-> FALSE, filtered |-> filtered]
    ELSE LET idx == Head(indices) IN
         IF idx < Len(xs) /\ ~PyIndexOk(xs, idx)
         THEN [raised |-> TRUE, filtered |-> filtered]
         ELSE LET f2 == IF idx < Len(xs) THEN Append(filtered, PyIndex(xs, idx))
                        ELSE filtered
              IN FilterLoop_no_break(xs, Tail(indices), f2, max_results)

(* The selection loop of tools.py:106-111; raised is TRUE when indexing    *)
(* raised IndexError.                                                      *)
RECURSIVE FilterLoop(_, _, _, _)
FilterLoop(xs, indices, filtered, max_results) ==
    IF indices = <<>> THEN [raised |-> FALSE, filtered |-> filtered]
    ELSE LET idx == Head(indices) IN
         IF idx < Len(xs) /\ ~PyIndexOk(xs, idx)
         THEN [raised |-> TRUE, filtered |-> filtered]
         ELSE LET f2 == IF idx < Len(xs) THEN Append(filtered, PyIndex(xs, idx))
                        ELSE filtered
              IN IF Len(f2) >= max_results
                 THEN [raised |-> FALSE, filtered |-> f2]
                 ELSE FilterLoop(xs, Tail(indices), f2, max_results)

(* sorted(search_results, key=score): stable, ascending *)
RECURSIVE InsertByScore(_, _)
InsertByScore(sorted, x) ==
    IF sorted = <<>> THEN <<x>>
    ELSE IF Score(x) < Score(Head(sorted)) THEN <<x>> \o sorted
    ELSE <<Head(sorted)>> \o InsertByScore(Tail(sorted), x)

RECURSIVE SortedByScore(_)
SortedByScore(xs) ==
    IF xs = <<>> THEN <<>>
    ELSE InsertByScore(SortedByScore(SubSeq(xs, 1, Len(xs) - 1)), xs[Len(xs)])

ScoreFallback(xs, max_results) ==
    LET sorted_results == SortedByScore(xs)
    IN [ filtered        |-> SubSeq(sorted_results, 1, Min(max_results, Len(sorted_results))),
         detected_module |-> IF sorted_results # <<>>
                             THEN EntityModule(sorted_results[1]) ELSE None ]

(* Outcome of one call: raised is TRUE when an exception leaves the       *)
(* function.  Response kinds:                                              *)
(*   "raises"     llm.invoke raised (tools.py:85, before the try)          *)
(*   "no_json"    no {...} in the response text                            *)
(*   "unparsable" json.loads raised                                        *)
(*   "no_indices" a JSON object without the key relevant_indices           *)
(*   "non_int"    relevant_indices holds integers followed by a string     *)
(*   "ok"         relevant_indices is a list of integers                   *)
Returned(filtered, detected_module) ==
    [raised |-> FALSE, filtered |-> filtered, detected_module |-> detected_module]

Raised == [raised |-> TRUE, filtered |-> <<>>, detected_module |-> None]

Fallback(search_results, max_results) ==
    LET f == ScoreFallback(search_results, max_results)
    IN Returned(f.filtered, f.detected_module)

llm_filter_results(search_results, resp, max_results) ==
    IF search_results = <<>> THEN Returned(<<>>, None)
    ELSE CASE resp.kind = "raises" -> Raised
           [] resp.kind \in {"no_json", "unparsable"} ->
                Fallback(search_results, max_results)
           [] resp.kind = "no_indices" -> Returned(<<>>, resp.detected_module)
           [] resp.kind = "non_int" ->
                LET r == FilterLoop(search_results, resp.relevant_indices, <<>>, max_results)
                IN IF ~r.raised /\ Len(r.filtered) >= max_results
                   THEN Returned(r.filtered, resp.detected_module)
                   ELSE Fallback(search_results, max_results)
           [] resp.kind = "ok" ->
                LET r == FilterLoop(search_results, resp.relevant_indices, <<>>, max_results)
                IN IF r.raised THEN Fallback(search_results, max_results)
                   ELSE Returned(r.filtered, resp.detected_module)

----------------------------------------------------------------------------
(* Retrieval gateway, as seen by the tools node.  `index` is the set of    *)
(* identifiers the vector index holds for the requested source.            *)

Sources == {"JIRA", "Confluence", "Zephyr"}

(* search_stories / search_documentation / search_test_cases: the vector   *)
(* store is asked for the top_k nearest points of the source (top_k = 0 or *)
(* None means config.SEARCH_TOP_K); `hits` is its answer, a list of        *)
(* (entity, score).  The loop keeps a hit unless score < threshold.        *)
EffectiveTopK(top_k) == IF top_k = 0 THEN SearchTopK ELSE top_k

search_by_source(hits) ==
    SelectSeq(hits, LAMBDA h : ~(h.score < MinRelevanceScore))

(* The points of the index holding the identifiers `index` of one source *)
PointsOf(index, source) == {[id |-> i, source |-> source] : i \in index}

(* Variant: the exact lookup does not filter by source *)
Scroll_any_source(points, doc_id, source) ==
    {p \in points : p.id = doc_id}

(* client.scroll with the filter on id, and on source when one is given *)
Scroll(points, doc_id, source) ==
    {p \in points : p.id = doc_id /\ (Truthy(source) => p.source = source)}

(* The loop of batch_retrieve_by_ids: one scroll per requested id, the hit *)
(* appended when there is one.  queries counts the calls of the index.     *)
RECURSIVE BatchLoop(_, _, _)
BatchLoop(ids, source, points) ==
    IF ids = <<>> THEN [results |-> <<>>, queries |-> 0]
    ELSE LET hits == Scroll(points, Head(ids), source)
             rest == BatchLoop(Tail(ids), source, points)
         IN [ results |-> (IF hits # {} THEN <<Head(ids)>> ELSE <<>>) \o rest.results,
              queries |-> 1 + rest.queries ]

batch_retrieve_by_ids(ids, source, points) ==
    IF ids = <<>> THEN [results |-> <<>>, queries |-> 0]
    ELSE BatchLoop(ids, source, points)

(* Variant: the test cases of the stories a story relates to are added *)
find_test_cases_by_stories_follows_relates_to(story_ids, index, tested_by) ==
    LET stories == batch_retrieve_by_ids(story_ids, "JIRA", PointsOf(index, "JIRA")).results
        related(sid) == IF probe.relates_to[sid] = <<>> THEN <<>>
                        ELSE tested_by[Head(probe.relates_to[sid])]
    IN [sid \in Range(stories) |-> tested_by[sid] \o related(sid)]

find_test_cases_by_stories(story_ids, index, tested_by) ==
    LET stories == batch_retrieve_by_ids(story_ids, "JIRA", PointsOf(index, "JIRA")).results
    IN [sid \in Range(stories) |-> tested_by[sid]]

(* One section of the rendered text: heading, "Total: **{len(items)}**"    *)
(* and one entry per item.                                                 *)
Section(title, items) ==
    [title |-> title, total |-> Len(items), items |-> items]

(* Variant: the text is stamped with the clock at the time of rendering *)
generate_training_markdown_stamped_now(s) ==
    << "# Training Package", s.module_name, probe.now,
       s.total_artifacts_found,
       Section("User Stories", s.stories),
       Section("Documentation", s.documentation),
       Section("Test Cases", s.test_cases) >>

(* generate_training_markdown(state): a non-empty text fixed by the state: *)
(* title with the module, "Generated:" timestamp, total artifacts, then    *)
(* the three sections.                                                     *)
generate_training_markdown(s) ==
    << "# Training Package", s.module_name, s.generation_timestamp,
       s.total_artifacts_found,
       Section("User Stories", s.stories),
       Section("Documentation", s.documentation),
       Section("Test Cases", s.test_cases) >>

----------------------------------------------------------------------------
(* Tools node: tools(state) -> update.  `ext` carries what the external    *)
(* collaborators return during the step: the semantic search result, the   *)
(* filter's LLM response, the index content seen by the exact lookups, the *)
(* tested_by attribute of each story and the iteration order of            *)
(* list(set(test_ids)).                                                    *)

(* Variant: the detected label replaces the name even when it is empty *)
SearchStoriesUpdate_any_label(s, ext) ==
    LET user_module == s.module_name
        f == llm_filter_results(ext.search, ext.resp, MaxResults)
        updates == [ stories               |-> f.filtered,
                     total_artifacts_found |-> s.total_artifacts_found + Len(f.filtered) ]
    IN IF Len(f.filtered) > 0
       THEN IF f.detected_module # user_module
            THEN updates @@ [module_name |-> f.detected_module]
            ELSE updates
       ELSE [ stories               |-> <<>>,
              total_artifacts_found |-> s.total_artifacts_found ]

SearchStoriesUpdate(s, ext) ==
    LET user_module == s.module_name
        f == llm_filter_results(ext.search, ext.resp, MaxResults)
        updates == [ stories               |-> f.filtered,
                     total_artifacts_found |-> s.total_artifacts_found + Len(f.filtered) ]
    IN IF Len(f.filtered) > 0
       THEN IF Truthy(f.detected_module) /\ f.detected_module # user_module
            THEN updates @@ [module_name |-> f.detected_module]
            ELSE updates
       ELSE [ stories               |-> <<>>,
              total_artifacts_found |-> s.total_artifacts_found ]

(* Variant: the count is set to the size of the new batch *)
SearchDocsUpdate_count_reset(s, ext) ==
    LET f == llm_filter_results(ext.search, ext.resp, MaxResults)
    IN [ documentation         |-> f.filtered,
         total_artifacts_found |-> Len(f.filtered) ]

SearchDocsUpdate(s, ext) ==
    LET f == llm_filter_results(ext.search, ext.resp, MaxResults)
    IN [ documentation         |-> f.filtered,
         total_artifacts_found |-> s.total_artifacts_found + Len(f.filtered) ]

SearchTestCasesUpdate(s, ext) ==
    LET f == llm_filter_results(ext.search, ext.resp, MaxResults)
    IN [ test_cases            |-> f.filtered,
         total_artifacts_found |-> s.total_artifacts_found + Len(f.filtered),
         gathering_complete    |-> TRUE ]

FindRelationshipsUpdate(s, ext) ==
    LET story_ids == s.stories
    IN IF story_ids = <<>>
       THEN [story_test_map |-> <<>>]
       ELSE [story_test_map |-> find_test_cases_by_stories(story_ids, ext.index, ext.tested_by)]

(* test_ids of tools.py:264-266 before set(): the map's lists one after    *)
(* the other, in key order.                                                *)
RECURSIVE ExtendAll(_, _)
ExtendAll(m, keys) ==
    IF keys = {} THEN <<>>
    ELSE LET k == CHOOSE k \in keys : \A j \in keys : k <= j
         IN m[k] \o ExtendAll(m, keys \ {k})

(* set(test_ids) of tools.py:264-268 *)
LinkedTestIds(s) ==
    UNION {Range(s.story_test_map[sid]) : sid \in DOMAIN s.story_test_map}

(* Variant: fetched test cases are not counted *)
FetchTestDetailsUpdate_uncounted(s, ext) ==
    IF LinkedTestIds(s) = {}
    THEN SearchTestCasesUpdate(s, ext)
    ELSE LET test_cases ==
                 batch_retrieve_by_ids(ext.order, "Zephyr", PointsOf(ext.index, "Zephyr")).results
         IN [ test_cases            |-> test_cases,
              total_artifacts_found |-> s.total_artifacts_found ]

(* Variant: the linked ids are fetched without removing duplicates *)
FetchTestDetailsUpdate_no_dedup(s, ext) ==
    IF LinkedTestIds(s) = {}
    THEN SearchTestCasesUpdate(s, ext)
    ELSE LET test_ids   == ExtendAll(s.story_test_map, DOMAIN s.story_test_map)
             test_cases ==
                 batch_retrieve_by_ids(test_ids, "Zephyr", PointsOf(ext.index, "Zephyr")).results
         IN [ test_cases            |-> test_cases,
              total_artifacts_found |-> s.total_artifacts_found + Len(test_cases) ]

(* Variant: the fallback's action tag is written back to the state *)
FetchTestDetailsUpdate_records_fallback(s, ext) ==
    IF LinkedTestIds(s) = {}
    THEN SearchTestCasesUpdate(s, ext) @@ [current_action |-> "search_test_cases"]
    ELSE LET test_cases ==
                 batch_retrieve_by_ids(ext.order, "Zephyr", PointsOf(ext.index, "Zephyr")).results
         IN [ test_cases            |-> test_cases,
              total_artifacts_found |-> s.total_artifacts_found + Len(test_cases) ]

FetchTestDetailsUpdate(s, ext) ==
    IF LinkedTestIds(s) = {}
    THEN SearchTestCasesUpdate(s, ext)
    ELSE LET test_cases ==
                 batch_retrieve_by_ids(ext.order, "Zephyr", PointsOf(ext.index, "Zephyr")).results
         IN [ test_cases            |-> test_cases,
              total_artifacts_found |-> s.total_artifacts_found + Len(test_cases) ]

(* Variant: the rendered document is not stored *)
GenerateMarkdownUpdate_dropped(s) ==
    [ gathering_complete |-> TRUE ]

GenerateMarkdownUpdate(s) ==
    [ markdown_output    |-> generate_training_markdown(s),
      gathering_complete |-> TRUE ]

tools(s, ext) ==
    LET action == s.current_action
    IN CASE action = "search_stories"     -> SearchStoriesUpdate(s, ext)
         [] action = "search_docs"        -> SearchDocsUpdate(s, ext)
         [] action = "search_test_cases"  -> SearchTestCasesUpdate(s, ext)
         [] action = "find_relationships" -> FindRelationshipsUpdate(s, ext)
         [] action = "fetch_test_details" -> FetchTestDetailsUpdate(s, ext)
         [] action = "generate_markdown"  -> GenerateMarkdownUpdate(s)
         [] OTHER                         -> <<>>

----------------------------------------------------------------------------
(* What the external collaborators can return *)

DetectedModules == {None, "", UserModule, OtherModule}

IdxRange(n) == (0 - (n + 1))..n

Responses(n) ==
    [ kind             : {"no_json", "unparsable"},
      relevant_indices : {<<>>},
      detected_module  : {None} ]
    \cup [ kind             : {"no_indices"},
           relevant_indices : {<<>>},
           detected_module  : DetectedModules ]
    \cup [ kind             : {"non_int", "ok"},
           relevant_indices : SeqsUpTo(IdxRange(n), MaxIdxLen),
           detected_module  : DetectedModules ]

(* llm.invoke raising instead of answering *)
RaisingResponse ==
    [kind |-> "raises", relevant_indices |-> <<>>, detected_module |-> None]

TestLists == DistinctSeqs(TestIds)

NoExt ==
    [ search    |-> <<>>,
      resp      |-> [kind |-> "unparsable", relevant_indices |-> <<>>, detected_module |-> None],
      index     |-> {},
      tested_by |-> [sid \in StoryIds |-> <<>>],
      order     |-> <<>> ]

(* Answers to the filter inside the tools node.  The node always passes    *)
(* max_results = 10, more than a result list holds here, so an answer with *)
(* a non-integer index falls back whatever its other indices and label:    *)
(* one such answer stands for all of them.                                 *)
NodeResponses(n) ==
    {r \in Responses(n) :
        r.kind = "non_int" => (r.relevant_indices = <<>> /\ r.detected_module = None)}

ExtSearch(ids) ==
    UNION {{[NoExt EXCEPT !.search = c, !.resp = r] : r \in NodeResponses(Len(c))} :
             c \in DistinctSeqs(ids)}

ExtRelationships ==
    {[NoExt EXCEPT !.index = ix, !.tested_by = tb] :
        ix \in SUBSET StoryIds, tb \in [StoryIds -> TestLists]}

ExtFetch(s) ==
    {[NoExt EXCEPT !.index = ix, !.order = o] :
        ix \in SUBSET TestIds,
        o \in {q \in DistinctSeqs(LinkedTestIds(s)) : Range(q) = LinkedTestIds(s)}}

Ext(s) ==
    CASE s.current_action = "search_stories"     -> ExtSearch(StoryIds)
      [] s.current_action = "search_docs"        -> ExtSearch(DocIds)
      [] s.current_action = "search_test_cases"  -> ExtSearch(TestIds)
      [] s.current_action = "find_relationships" -> ExtRelationships
      [] s.current_action = "fetch_test_details" ->
            IF LinkedTestIds(s) = {} THEN ExtSearch(TestIds) ELSE ExtFetch(s)
      [] OTHER                                   -> {NoExt}

----------------------------------------------------------------------------
(* The graph of agent.py: entry point planner, edge tools -> planner, the  *)
(* planner's Command routes to tools or to END.                            *)

CountCap == MaxIterations + 3

(* The structured LLM is invoked only when the planner reaches its        *)
(* fallback branch; on every other pass there is no decision to draw.      *)
LLMConsulted(s) ==
    Len(s.markdown_output) = 0 /\ ~AtCeiling(s) /\ RuleAction(s) = "llm"

NoDecision ==
    [action |-> "complete", query |-> None, entity_ids |-> None, relationship_type |-> None]

DecisionsFor(s) == IF LLMConsulted(s) THEN Decisions ELSE {NoDecision}

PlannerStep ==
    /\ pc = "planner"
    /\ \E d \in DecisionsFor(state) :
         LET cmd == planner(state, d)
         IN /\ state' = Merge(state, cmd.update)
            /\ pc' = cmd.goto
            /\ last' = [ node |-> "planner", llm |-> cmd.llm,
                         sets_error |-> IF "error_message" \in DOMAIN cmd.update
                                        THEN cmd.update.error_message # None
                                        ELSE FALSE ]
    /\ nPlanner' = Min(nPlanner + 1, CountCap)
    /\ iterAtPlan' = state.iteration
    /\ UNCHANGED <<nTools, call, probe, peer>>

(* Variant: the graph also runs the tools node after END *)
ToolsStepOver_after_end(exts) ==
    /\ pc \in {"tools", "__end__"}
    /\ \E ext \in exts :
         state' = Merge(state, tools(state, ext))
    /\ pc' = "planner"
    /\ last' = [node |-> "tools", llm |-> FALSE, sets_error |-> FALSE]
    /\ nTools' = Min(nTools + 1, CountCap)
    /\ UNCHANGED <<nPlanner, iterAtPlan, call, probe, peer>>

(* Variant: the tools node is not followed by the planner *)
ToolsStepOver_no_edge(exts) ==
    /\ pc = "tools"
    /\ \E ext \in exts :
         state' = Merge(state, tools(state, ext))
    /\ pc' = "tools"
    /\ last' = [node |-> "tools", llm |-> FALSE, sets_error |-> FALSE]
    /\ nTools' = Min(nTools + 1, CountCap)
    /\ UNCHANGED <<nPlanner, iterAtPlan, call, probe, peer>>

ToolsStepOver(exts) ==
    /\ pc = "tools"
    /\ \E ext \in exts :
         state' = Merge(state, tools(state, ext))
    /\ pc' = "planner"
    /\ last' = [node |-> "tools", llm |-> FALSE, sets_error |-> FALSE]
    /\ nTools' = Min(nTools + 1, CountCap)
    /\ UNCHANGED <<nPlanner, iterAtPlan, call, probe, peer>>

ToolsStep == ToolsStepOver(Ext(state))

Next == PlannerStep \/ ToolsStep

NoStep == [node |-> "none", llm |-> FALSE, sets_error |-> FALSE]

(* No direct call of another function is being observed *)
NoProbe == [fn |-> "none"]

(* No second request is running *)
NoPeer == [pc |-> "none"]

(* No direct call of the relevance filter is being observed *)
NoCall ==
    [ search_results |-> <<>>, resp |-> NoExt.resp, max_results |-> MaxResults,
      done |-> FALSE, result |-> Returned(<<>>, None) ]

Init ==
    /\ state = create_initial_state(UserModule)
    /\ pc = "planner"
    /\ last = NoStep
    /\ nPlanner = 0
    /\ nTools = 0
    /\ iterAtPlan = 0
    /\ call = NoCall
    /\ probe = NoProbe
    /\ peer = NoPeer

Spec == Init /\ [][Next]_vars

FairSpec == Spec /\ WF_vars(Next)

----------------------------------------------------------------------------
(* The planner and the tools node applied from any Collected State a node  *)
(* can be handed: any combination of collected lists, relationship map,    *)
(* artifact count, counter and ceiling, with or without output.  No state  *)
(* handed to a node carries an error message: planner.py:71 is its only    *)
(* assignment, on a branch that ends the run.                              *)

AnyMaps ==
    { <<>>, [sid \in {1} |-> <<>>], [sid \in {1} |-> <<1>>] }

AnyLists == {<<>>, <<1>>}

AnyStates ==
    { [ create_initial_state(UserModule) EXCEPT
          !.max_iterations        = mx,
          !.iteration             = it,
          !.stories               = st,
          !.documentation         = dc,
          !.test_cases            = tc,
          !.story_test_map        = mp,
          !.total_artifacts_found = n ] :
        mx \in 1..MaxCeilAny, it \in 0..(MaxCeilAny + 1),
        st \in AnyLists, dc \in AnyLists, tc \in AnyLists,
        mp \in AnyMaps, n \in 0..MinArtifacts }

InitAny ==
    /\ state \in AnyStates \cup
                 {[s EXCEPT !.markdown_output = generate_training_markdown(s)] : s \in AnyStates}
    /\ state.iteration <= state.max_iterations + 1
    /\ pc = "planner"
    /\ last = NoStep
    /\ nPlanner = 0
    /\ nTools = 0
    /\ iterAtPlan = state.iteration
    /\ call = NoCall
    /\ probe = NoProbe
    /\ peer = NoPeer

SpecAny == InitAny /\ [][Next]_vars

----------------------------------------------------------------------------
(* A run in which a call to the vector index or to the text-generation     *)
(* capability can raise.  The tools node has no exception handler and      *)
(* agent.py adds none, so the exception leaves training_agent.invoke: no   *)
(* final state is returned (pc = "raised").  generate_markdown and the     *)
(* find_relationships branch without stories make no external call.        *)

CallsCollaborator(s) ==
    \/ s.current_action \in {"search_stories", "search_docs", "search_test_cases",
                             "fetch_test_details"}
    \/ s.current_action = "find_relationships" /\ s.stories # <<>>

ToolsFail ==
    /\ pc = "tools"
    /\ CallsCollaborator(state)
    /\ pc' = "raised"
    /\ last' = [node |-> "tools", llm |-> FALSE, sets_error |-> FALSE]
    /\ nTools' = Min(nTools + 1, CountCap)
    /\ UNCHANGED <<state, nPlanner, iterAtPlan, call, probe, peer>>

NextFail == PlannerStep \/ ToolsStep \/ ToolsFail

SpecFail == Init /\ [][NextFail]_vars

----------------------------------------------------------------------------
(* Scenario A: a corpus with 5 stories, 2 documents and 4 test cases of    *)
(* the requested module.  Each search returns the whole corpus of its      *)
(* source in some order and the filter keeps all of it (by selecting every *)
(* index, or through the score fallback); every story is in the index at   *)
(* find_relationships and its tested_by lists link to the 4 test cases,    *)
(* all of which the index holds at fetch_test_details.  The order of       *)
(* list(set(test_ids)) is not determined.                                  *)

StoriesA == 1..5

DocsA == 1..2

TestsA == 1..4

Ascending(n) == [i \in 1..n |-> i]

Descending(n) == [i \in 1..n |-> n + 1 - i]

ResponsesA(n) ==
    [ kind             : {"no_json", "unparsable"},
      relevant_indices : {<<>>},
      detected_module  : {None} ]
    \cup [ kind             : {"ok"},
           relevant_indices : {[i \in 1..n |-> i - 1], [i \in 1..n |-> n - i]},
           detected_module  : DetectedModules ]

ExtSearchA(ids) ==
    LET n == Cardinality(ids)
    IN { e \in { [NoExt EXCEPT !.search = c, !.resp = r] :
                   c \in {Ascending(n), Descending(n)}, r \in ResponsesA(n) } :
           Range(llm_filter_results(e.search, e.resp, MaxResults).filtered) = ids }

TestedByA ==
    { [sid \in StoriesA |-> IF sid \in TestsA THEN <<sid>> ELSE <<>>],
      [sid \in StoriesA |-> IF sid \in TestsA THEN <<sid>> ELSE <<1>>],
      [sid \in StoriesA |-> IF sid = 1 THEN Ascending(4) ELSE <<>>],
      [sid \in StoriesA |-> IF sid = 5 THEN <<>> ELSE <<sid, 5 - sid>>] }

ExtA(s) ==
    CASE s.current_action = "search_stories"     -> ExtSearchA(StoriesA)
      [] s.current_action = "search_docs"        -> ExtSearchA(DocsA)
      [] s.current_action = "find_relationships" ->
            {[NoExt EXCEPT !.index = StoriesA, !.tested_by = tb] : tb \in TestedByA}
      [] s.current_action = "fetch_test_details" ->
            {[NoExt EXCEPT !.index = TestsA, !.order = o] :
                o \in {q \in DistinctSeqs(LinkedTestIds(s)) : Range(q) = LinkedTestIds(s)}}
      [] OTHER                                   -> {NoExt}

ToolsStepA == ToolsStepOver(ExtA(state))

NextA == PlannerStep \/ ToolsStepA

SpecA == Init /\ [][NextA]_vars

----------------------------------------------------------------------------
(* Runs resumed at a fetch_test_details step: two stories and a document   *)
(* are collected, the relationship map gives each story any list of test   *)
(* identifiers (the two stories may name the same one), and the index      *)
(* holds any subset of the test cases.                                     *)

FetchStories == 1..2

FetchTests == 1..(NTests + 1)

FetchStates ==
    { [ create_initial_state(UserModule) EXCEPT
          !.stories               = Ascending(2),
          !.documentation         = <<1>>,
          !.total_artifacts_found = 3,
          !.story_test_map        = mp,
          !.iteration             = 4,
          !.current_action        = "fetch_test_details",
          !.reasoning             = RuleReasoning("fetch_test_details") ] :
        mp \in [FetchStories -> DistinctSeqs(FetchTests)] }

ExtWide(s) ==
    IF s.current_action = "fetch_test_details" /\ LinkedTestIds(s) # {}
    THEN {[NoExt EXCEPT !.index = ix, !.order = o] :
             ix \in SUBSET FetchTests,
             o \in {q \in DistinctSeqs(LinkedTestIds(s)) : Range(q) = LinkedTestIds(s)}}
    ELSE Ext(s)

ToolsStepWide == ToolsStepOver(ExtWide(state))

NextFetch == PlannerStep \/ ToolsStepWide

InitFetch ==
    /\ state \in FetchStates
    /\ pc = "tools"
    /\ last = [node |-> "planner", llm |-> FALSE, sets_error |-> FALSE]
    /\ nPlanner = 4
    /\ nTools = 3
    /\ iterAtPlan = 3
    /\ call = NoCall
    /\ probe = NoProbe
    /\ peer = NoPeer

SpecFetch == InitFetch /\ [][NextFetch]_vars

----------------------------------------------------------------------------
(* Two requests served at the same time through the module-level           *)
(* training_agent and rag_tools.  Each invoke is handed the state its      *)
(* caller built with create_initial_state; the compiled graph has no       *)
(* checkpointer and the gateway object is only read after construction, so *)
(* a node sees the state of its own request and nothing else.  `peer` is   *)
(* the second request: its Collected State and its position.  The steps of *)
(* the two requests interleave in any order.  The corpus is one story, one *)
(* document and one test case; a search finds its item or nothing.         *)

NoJson == [kind |-> "no_json", relevant_indices |-> <<>>, detected_module |-> None]

ExtSearchTwo == {[NoExt EXCEPT !.search = c, !.resp = NoJson] : c \in {<<>>, <<1>>}}

ExtTwo(s) ==
    CASE s.current_action \in {"search_stories", "search_docs", "search_test_cases"} ->
            ExtSearchTwo
      [] s.current_action = "find_relationships" ->
            {[NoExt EXCEPT !.index = ix, !.tested_by = [sid \in StoryIds |-> tb]] :
                ix \in SUBSET {1}, tb \in {<<>>, <<1>>}}
      [] s.current_action = "fetch_test_details" ->
            IF LinkedTestIds(s) = {} THEN ExtSearchTwo
            ELSE {[NoExt EXCEPT !.index = ix, !.order = <<1>>] : ix \in SUBSET {1}}
      [] OTHER -> {NoExt}

ToolsStepTwo == ToolsStepOver(ExtTwo(state))

PeerPlannerStep ==
    /\ peer.pc = "planner"
    /\ \E d \in DecisionsFor(peer.state) :
         LET cmd == planner(peer.state, d)
         IN peer' = [state |-> Merge(peer.state, cmd.update), pc |-> cmd.goto]
    /\ UNCHANGED <<state, pc, last, nPlanner, nTools, iterAtPlan, call, probe>>

(* Variant: the update of the second request's tools step is merged into   *)
(* the first request's state as well                                       *)
PeerToolsStep_shared_lists ==
    /\ peer.pc = "tools"
    /\ \E ext \in ExtTwo(peer.state) :
         LET u == tools(peer.state, ext)
         IN /\ peer' = [state |-> Merge(peer.state, u), pc |-> "planner"]
            /\ state' = Merge(state, u)
    /\ UNCHANGED <<pc, last, nPlanner, nTools, iterAtPlan, call, probe>>

PeerToolsStep ==
    /\ peer.pc = "tools"
    /\ \E ext \in ExtTwo(peer.state) :
         peer' = [state |-> Merge(peer.state, tools(peer.state, ext)), pc |-> "planner"]
    /\ UNCHANGED <<state, pc, last, nPlanner, nTools, iterAtPlan, call, probe>>

NextTwo == PlannerStep \/ ToolsStepTwo \/ PeerPlannerStep \/ PeerToolsStep

InitTwo ==
    /\ state = create_initial_state(UserModule)
    /\ pc = "planner"
    /\ last = NoStep
    /\ nPlanner = 0
    /\ nTools = 0
    /\ iterAtPlan = 0
    /\ call = NoCall
    /\ probe = NoProbe
    /\ peer = [state |-> create_initial_state(OtherModule), pc |-> "planner"]

SpecTwo == InitTwo /\ [][NextTwo]_vars

----------------------------------------------------------------------------
(* The relevance filter called directly on any candidate list and any      *)
(* behaviour of the text-generation capability.                            *)

FilterCalls ==
    UNION {[ search_results : {c},
             resp           : Responses(Len(c)) \cup {RaisingResponse},
             max_results    : {NStories, MaxResults},
             done           : {FALSE},
             result         : {Returned(<<>>, None)} ] : c \in DistinctSeqs(StoryIds)}

InitFilter ==
    /\ state = create_initial_state(UserModule)
    /\ pc = "filter"
    /\ last = NoStep
    /\ nPlanner = 0
    /\ nTools = 0
    /\ iterAtPlan = 0
    /\ call \in FilterCalls
    /\ probe = NoProbe
    /\ peer = NoPeer

FilterStep ==
    /\ pc = "filter"
    /\ ~call.done
    /\ call' = [call EXCEPT !.done = TRUE,
                            !.result = llm_filter_results(call.search_results, call.resp,
                                                          call.max_results)]
    /\ UNCHANGED <<state, pc, last, nPlanner, nTools, iterAtPlan, probe, peer>>

SpecFilter == InitFilter /\ [][FilterStep]_vars

----------------------------------------------------------------------------
(* The relevance filter called directly on candidate lists one longer than *)
(* a run can produce and index lists one longer than the small cap, so     *)
(* that a response can name more candidates than max_results allows.       *)

SelectIds == 1..(NStories + 1)

SelectCalls ==
    UNION {[ search_results : {c},
             resp           : [ kind             : {"ok"},
                                relevant_indices : SeqsUpTo(IdxRange(Len(c)), MaxIdxLen + 1),
                                detected_module  : {None, UserModule} ]
                              \cup Responses(Len(c)) \cup {RaisingResponse},
             max_results    : {MaxIdxLen, MaxResults},
             done           : {FALSE},
             result         : {Returned(<<>>, None)} ] : c \in DistinctSeqs(SelectIds)}

InitSelect ==
    /\ state = create_initial_state(UserModule)
    /\ pc = "filter"
    /\ last = NoStep
    /\ nPlanner = 0
    /\ nTools = 0
    /\ iterAtPlan = 0
    /\ call \in SelectCalls
    /\ probe = NoProbe
    /\ peer = NoPeer

SpecSelect == InitSelect /\ [][FilterStep]_vars

----------------------------------------------------------------------------
(* generate_training_markdown called twice in a row on one Collected       *)
(* State, the wall clock advancing between the calls.  The function reads  *)
(* the state and assigns nothing to it.                                    *)

Timestamps == 0..MaxClock

RenderInputs ==
    {[s EXCEPT !.generation_timestamp = t] : s \in AnyStates, t \in Timestamps}

InitRender ==
    /\ state \in RenderInputs
    /\ pc = "render"
    /\ last = NoStep
    /\ nPlanner = 0
    /\ nTools = 0
    /\ iterAtPlan = 0
    /\ call = NoCall
    /\ \E t \in Timestamps :
         /\ t >= state.generation_timestamp
         /\ probe = [fn |-> "render", now |-> t, before |-> state, outputs |-> <<>>]
    /\ peer = NoPeer

RenderStep ==
    /\ pc = "render"
    /\ Len(probe.outputs) < 2
    /\ probe' = [probe EXCEPT !.outputs = Append(@, generate_training_markdown(state)),
                              !.now = @ + 1]
    /\ UNCHANGED <<state, pc, last, nPlanner, nTools, iterAtPlan, call, peer>>

SpecRender == InitRender /\ [][RenderStep]_vars

----------------------------------------------------------------------------
(* batch_retrieve_by_ids called directly: any list of identifiers (with    *)
(* repetitions), either source, any content of the index.                 *)

BatchIds == 1..(NTests + 1)

IndexContents == SUBSET [id : BatchIds, source : {"JIRA", "Zephyr"}]

BatchCalls ==
    [ fn     : {"batch_retrieve_by_ids"},
      ids    : SeqsUpTo(BatchIds, MaxIds),
      source : Sources,
      points : IndexContents,
      done   : {FALSE},
      result : {[results |-> <<>>, queries |-> 0]} ]

InitBatch ==
    /\ state = create_initial_state(UserModule)
    /\ pc = "batch"
    /\ last = NoStep
    /\ nPlanner = 0
    /\ nTools = 0
    /\ iterAtPlan = 0
    /\ call = NoCall
    /\ probe \in BatchCalls
    /\ peer = NoPeer

BatchStep ==
    /\ pc = "batch"
    /\ ~probe.done
    /\ probe' = [probe EXCEPT !.done = TRUE,
                              !.result = batch_retrieve_by_ids(probe.ids, probe.source,
                                                               probe.points)]
    /\ UNCHANGED <<state, pc, last, nPlanner, nTools, iterAtPlan, call, peer>>

SpecBatch == InitBatch /\ [][BatchStep]_vars

----------------------------------------------------------------------------
(* A semantic search called directly.  The store applies the source filter *)
(* and the limit k itself: its answer holds at most k points, all of the   *)
(* requested source, with scores on either side of the threshold.          *)

Scores == (MinRelevanceScore - 1)..(MinRelevanceScore + 1)

StoreAnswers(source, k) ==
    {h \in SeqsUpTo([id : BatchIds, source : {source}, score : Scores], MaxIds) :
        /\ Len(h) <= k
        /\ \A i, j \in 1..Len(h) : i # j => h[i].id # h[j].id}

SearchCalls ==
    UNION {[ fn     : {"search"},
             source : {src},
             top_k  : {k},
             hits   : StoreAnswers(src, EffectiveTopK(k)),
             done   : {FALSE},
             result : {<<>>} ] : src \in Sources, k \in 0..1}

InitSearch ==
    /\ state = create_initial_state(UserModule)
    /\ pc = "search"
    /\ last = NoStep
    /\ nPlanner = 0
    /\ nTools = 0
    /\ iterAtPlan = 0
    /\ call = NoCall
    /\ probe \in SearchCalls
    /\ peer = NoPeer

SearchStep ==
    /\ pc = "search"
    /\ ~probe.done
    /\ probe' = [probe EXCEPT !.done = TRUE, !.result = search_by_source(probe.hits)]
    /\ UNCHANGED <<state, pc, last, nPlanner, nTools, iterAtPlan, call, peer>>

SpecSearch == InitSearch /\ [][SearchStep]_vars

----------------------------------------------------------------------------
(* The relationship resolver called directly on a corpus of two stories    *)
(* and two test cases.  Every story record carries its own tested_by and   *)
(* relates_to lists and every test-case record its linked_stories list;    *)
(* the index holds any subset of the stories.                              *)

ResolveStories == 1..2

ResolveTests == 1..2

LinkLists(ids) == {<<>>} \cup {<<i>> : i \in ids}

ResolveCalls ==
    [ fn             : {"find_test_cases_by_stories"},
      story_ids      : SeqsUpTo(ResolveStories, MaxIds),
      index          : SUBSET ResolveStories,
      tested_by      : [ResolveStories -> DistinctSeqs(ResolveTests)],
      relates_to     : [ResolveStories -> LinkLists(ResolveStories)],
      linked_stories : [ResolveTests -> LinkLists(ResolveStories)],
      done           : {FALSE},
      result         : {<<>>} ]

InitResolve ==
    /\ state = create_initial_state(UserModule)
    /\ pc = "resolve"
    /\ last = NoStep
    /\ nPlanner = 0
    /\ nTools = 0
    /\ iterAtPlan = 0
    /\ call = NoCall
    /\ probe \in ResolveCalls
    /\ peer = NoPeer

ResolveStep ==
    /\ pc = "resolve"
    /\ ~probe.done
    /\ probe' = [probe EXCEPT !.done = TRUE,
                              !.result = find_test_cases_by_stories(
                                             probe.story_ids, probe.index, probe.tested_by)]
    /\ UNCHANGED <<state, pc, last, nPlanner, nTools, iterAtPlan, call, peer>>

SpecResolve == InitResolve /\ [][ResolveStep]_vars

----------------------------------------------------------------------------
(* Properties *)

OutputEmpty(s) == Len(s.markdown_output) = 0

NoEntities(s) ==
    Len(s.stories) = 0 /\ Len(s.documentation) = 0 /\ Len(s.test_cases) = 0

(* Every state handed to a node is free of an error message (supports the  *)
(* choice of AnyStates).                                                   *)
NodeInputHasNoError == pc # "__end__" => state.error_message = None

(* C1: from every Collected State whose markdown_output is non-empty, the  *)
(* planner step routes to __end__, its delta sets no error message and the *)
(* resulting state carries none.                                           *)
C1_OutputPopulatedTerminates ==
    [][ (pc = "planner" /\ ~OutputEmpty(state))
        => (pc' = "__end__" /\ ~last'.sets_error /\ state'.error_message = None) ]_vars

(* C1 witness: the planner has terminated on a populated output in a state *)
(* whose other fields would have selected search_stories.                  *)
C1_Witness ==
    /\ pc = "__end__" /\ last.node = "planner" /\ nPlanner = 1
    /\ ~OutputEmpty(state)
    /\ state.iteration < state.max_iterations
    /\ Len(state.stories) = 0

(* C2: from every Collected State with empty output, iteration equal to    *)
(* max_iterations and the three entity lists empty, the planner step       *)
(* routes to __end__ and its delta carries a non-null error_message.       *)
C2_CeilingWithoutDataFails ==
    [][ (pc = "planner" /\ OutputEmpty(state)
         /\ state.iteration = state.max_iterations /\ NoEntities(state))
        => (pc' = "__end__" /\ last'.sets_error /\ state'.error_message # None) ]_vars

(* C2 witness: the planner has terminated with an error at the ceiling     *)
(* with nothing collected.                                                 *)
C2_Witness ==
    /\ pc = "__end__" /\ last.node = "planner" /\ last.sets_error
    /\ state.iteration = state.max_iterations
    /\ NoEntities(state) /\ OutputEmpty(state)
    /\ state.error_message = InsufficientData

(* C3: from every Collected State with empty output, iteration at or above *)
(* max_iterations and at least one of stories, documentation, test_cases   *)
(* non-empty, the planner step selects generate_markdown, routes to the    *)
(* tools node and sets no error.                                           *)
C3_AnyEntityForcesRender ==
    [][ (pc = "planner" /\ OutputEmpty(state)
         /\ state.iteration >= state.max_iterations /\ ~NoEntities(state))
        => (pc' = "tools" /\ state'.current_action = "generate_markdown"
            /\ ~last'.sets_error) ]_vars

(* The ordered rule list as the decision policy states it *)
PolicyRule(s) ==
    CASE Len(s.stories) = 0 -> "search_stories"
      [] Len(s.stories) > 0 /\ Len(s.documentation) = 0 -> "search_docs"
      [] Len(s.stories) > 0 /\ Len(s.documentation) > 0 /\ MapEmpty(s) -> "find_relationships"
      [] Len(s.stories) > 0 /\ Len(s.documentation) > 0 /\ ~MapEmpty(s)
            /\ Len(s.test_cases) = 0 -> "fetch_test_details"
      [] Len(s.stories) > 0 /\ Len(s.documentation) > 0 /\ ~MapEmpty(s)
            /\ Len(s.test_cases) > 0 /\ s.total_artifacts_found >= 3 -> "generate_markdown"
      [] OTHER -> "fallback"

(* C4: from every Collected State with empty output and iteration below    *)
(* max_iterations, the planner step selects the action of the first        *)
(* matching rule without consulting the LLM, and consults the LLM only     *)
(* when no rule matches.                                                   *)
C4_FirstMatchingRuleWins ==
    [][ (pc = "planner" /\ OutputEmpty(state)
         /\ state.iteration < state.max_iterations)
        => IF PolicyRule(state) # "fallback"
           THEN /\ state'.current_action = PolicyRule(state)
                /\ pc' = "tools"
                /\ ~last'.llm
           ELSE last'.llm ]_vars

(* C4 witness: the fallback has been consulted in a state where every list *)
(* and the map are populated but fewer than three artifacts are counted.   *)
C4_Witness ==
    /\ last.node = "planner" /\ last.llm /\ nPlanner = 1
    /\ Len(state.stories) > 0 /\ Len(state.documentation) > 0
    /\ ~MapEmpty(state) /\ Len(state.test_cases) > 0
    /\ state.total_artifacts_found < 3

(* C5: every run from create_initial_state reaches END, with at most       *)
(* max_iterations + 1 tools steps and max_iterations + 2 planner steps.    *)
C5_RunTerminates ==
    /\ <>(pc = "__end__")
    /\ [](/\ nTools <= state.max_iterations + 1
          /\ nPlanner <= state.max_iterations + 2)

(* C5 witness: a finished run that used every allowed step.                *)
C5_Witness ==
    /\ pc = "__end__"
    /\ nTools = state.max_iterations + 1
    /\ nPlanner = state.max_iterations + 2

C7_TotalIsSumOfLengths ==
    state.total_artifacts_found =
        Len(state.stories) + Len(state.documentation) + Len(state.test_cases)

(* C7 witness: all three lists have been filled by tools steps.            *)
C7_Witness ==
    /\ last.node = "tools"
    /\ Len(state.stories) > 0 /\ Len(state.documentation) > 0
    /\ Len(state.test_cases) > 0

(* C8: total_artifacts_found never decreases from one state to the next.   *)
C8_TotalNeverDecreases ==
    [][ state'.total_artifacts_found >= state.total_artifacts_found ]_vars

(* C8 witness: the count has grown in two successive retrievals.           *)
C8_Witness ==
    /\ last.node = "tools" /\ state.current_action = "search_docs"
    /\ Len(state.documentation) > 0
    /\ state.total_artifacts_found > Len(state.documentation)

(* C9: once story_test_map is non-empty, no later step changes it.         *)
C9_MapWrittenOnce ==
    [][ ~MapEmpty(state) => state'.story_test_map = state.story_test_map ]_vars

(* C9 witness: steps have run after the map was populated.                 *)
C9_Witness ==
    /\ ~MapEmpty(state) /\ last.node = "tools"
    /\ state.current_action = "fetch_test_details"

(* C10: iteration never exceeds max_iterations by more than one.           *)
C10_IterationBounded == state.iteration <= state.max_iterations + 1

(* C10 witness: the counter stands at the ceiling after the forced cycle.  *)
C10_Witness ==
    /\ state.iteration = state.max_iterations
    /\ iterAtPlan = state.max_iterations
    /\ last.node = "tools"

----------------------------------------------------------------------------
(* C11: find_test_cases_by_stories(story_ids) returns a map whose key set  *)
(* is exactly the set of input ids; an id without a record in the index    *)
(* is a key mapped to the empty list.  Stated on every find_relationships  *)
(* step of the tools node, whose input ids are the ids of state.stories.   *)
C11_MapKeysAreInputIds ==
    [][ ( /\ pc = "tools"
          /\ state.current_action = "find_relationships"
          /\ state.stories # <<>> )
        => DOMAIN state'.story_test_map = Range(state.stories) ]_vars

----------------------------------------------------------------------------
(* C12: for a non-empty candidate list and a response that fails schema    *)
(* validation (no JSON object, unparsable JSON, a JSON object without      *)
(* relevant_indices, non-integer indices) llm_filter_results returns the   *)
(* first max_results candidates in ascending score order, and the label    *)
(* is the module attribute of the lowest-score candidate.                  *)
FailsSchema(resp) == resp.kind \in {"no_json", "unparsable", "no_indices", "non_int"}

LowestFirst(f, xs, max_results) ==
    /\ Len(f) = Min(max_results, Len(xs))
    /\ Range(f) \subseteq Range(xs)
    /\ \A i, j \in 1..Len(f) : i < j => f[i] # f[j] /\ Score(f[i]) <= Score(f[j])
    /\ \A x \in Range(xs) \ Range(f) : \A i \in 1..Len(f) : Score(f[i]) <= Score(x)

C12_SchemaFailureFallsBack ==
    ( /\ call.done
      /\ call.search_results # <<>>
      /\ FailsSchema(call.resp) )
    => /\ ~call.result.raised
       /\ LowestFirst(call.result.filtered, call.search_results, call.max_results)
       /\ call.result.filtered # <<>>
       /\ call.result.detected_module = MetadataModule(call.result.filtered[1])

(* C13: llm_filter_results never raises: when the text-generation call     *)
(* itself raises, it returns the same score-ordered fallback as for a      *)
(* parse failure.                                                          *)
C13_FilterNeverRaises ==
    ( /\ call.done
      /\ call.search_results # <<>>
      /\ call.resp.kind = "raises" )
    => /\ ~call.result.raised
       /\ call.result = llm_filter_results(call.search_results,
                                           [call.resp EXCEPT !.kind = "unparsable"],
                                           call.max_results)

(* C14: when a retrieval or text-generation call fails during a step of    *)
(* the tools node, the run ends in a terminal state with error_message     *)
(* set, returned as the final state of invoke; no exception escapes.       *)
C14_FailureEndsWithErrorState ==
    [][ ToolsFail => (pc' = "__end__" /\ state'.error_message # None) ]_vars

(* C15: when the planner's LLM fallback returns an invalid decision (a     *)
(* retrieval action with an empty query, a relationship or fetch action    *)
(* with an empty identifier list), the decision is rejected: the tools     *)
(* node is not invoked for it and the run ends with error_message set.     *)
C15_InvalidDecisionRejected ==
    pc = "planner" =>
        \A d \in Decisions :
            LET cmd == planner(state, d)
            IN (cmd.llm /\ ~validate_planner_decision(d)[1])
               => /\ cmd.goto = "__end__"
                  /\ "error_message" \in DOMAIN cmd.update
                  /\ cmd.update.error_message # None

(* C16: scenario A (5 stories, 2 documents, 4 linked retrievable test      *)
(* cases): the tools node executes exactly search_stories, search_docs,    *)
(* find_relationships, fetch_test_details, generate_markdown, then the run *)
(* ends with a non-empty output and total_artifacts_found = 11.            *)
SequenceA ==
    << "search_stories", "search_docs", "find_relationships",
       "fetch_test_details", "generate_markdown" >>

C16_ScenarioA ==
    /\ nTools <= Len(SequenceA)
    /\ pc = "tools" =>
          /\ nTools < Len(SequenceA)
          /\ state.current_action = SequenceA[nTools + 1]
    /\ pc = "planner" => nTools < Len(SequenceA) \/ ~OutputEmpty(state)
    /\ pc = "__end__" =>
          /\ nTools = Len(SequenceA)
          /\ ~OutputEmpty(state)
          /\ state.total_artifacts_found = 11
          /\ state.error_message = None

C16_Witness ==
    /\ pc = "__end__"
    /\ nTools = Len(SequenceA)
    /\ Len(state.stories) = 5
    /\ Len(state.documentation) = 2
    /\ Len(state.test_cases) = 4
    /\ Cardinality(Range(state.test_cases)) = 4

(* C17: scenario B: after search_stories returned no stories the planner   *)
(* selects search_docs on a later pass; and a run that reaches the ceiling *)
(* with documentation empty as well ends with the insufficient-data        *)
(* error message.  A run in which a later search does find stories is not  *)
(* scenario B and satisfies the first part.                                *)
StoriesCameBackEmpty ==
    /\ last.node = "tools"
    /\ state.current_action = "search_stories"
    /\ state.stories = <<>>

C17_ScenarioB ==
    /\ [](StoriesCameBackEmpty =>
            <>( \/ pc = "tools" /\ state.current_action = "search_docs"
                \/ state.stories # <<>> ))
    /\ []((pc = "__end__" /\ AtCeiling(state) /\ NoEntities(state))
            => state.error_message = InsufficientData)

(* C18: scenario C: with max_iterations = 1 and one story collected on    *)
(* the first pass, the second planner pass forces generate_markdown        *)
(* although documentation and test_cases are empty; the run ends with a    *)
(* non-empty output whose documentation and test-case sections report a    *)
(* total of 0, and without an error message.                               *)
OneStoryOnly(s) ==
    /\ Len(s.stories) = 1
    /\ Len(s.documentation) = 0
    /\ Len(s.test_cases) = 0

DocumentationSection(s) == s.markdown_output[6]

TestCasesSection(s) == s.markdown_output[7]

C20_TerminateIsAbsorbing ==
    /\ [](pc = "__end__" => last.node = "planner")
    /\ [][pc # "__end__"]_vars

C20_Witness ==
    /\ pc = "__end__"
    /\ last.node = "planner"
    /\ nTools > 0
    /\ state.current_action = "complete"
    /\ state.gathering_complete

Held(points, source, i) == \E p \in points : p.id = i /\ p.source = source

C22_BatchRetrieveExact ==
    probe.done =>
        /\ probe.result.results =
              SelectSeq(probe.ids, LAMBDA i : Held(probe.points, probe.source, i))
        /\ probe.ids = <<>> => probe.result.queries = 0

C22_Witness ==
    /\ probe.done
    /\ Len(probe.ids) = 2
    /\ Len(probe.result.results) = 1
    /\ probe.result.results[1] = probe.ids[2]
    /\ \E p \in probe.points : p.id = probe.ids[1] /\ p.source # probe.source

(* C23: a semantic search returns at most topK entities, all of the       *)
(* requested category, each with a distance score no greater than the      *)
(* relevance threshold: candidates farther than the threshold are dropped  *)
(* and closer ones are kept.                                               *)
C23_SearchKeepsWithinThreshold ==
    probe.done =>
        /\ Len(probe.result) <= EffectiveTopK(probe.top_k)
        /\ \A e \in Range(probe.result) :
              e.source = probe.source /\ e.score <= MinRelevanceScore
        /\ \A h \in Range(probe.hits) :
              h.score <= MinRelevanceScore => h \in Range(probe.result)

(* C24: two requests running concurrently, their planner and tools steps  *)
(* interleaved in any order, do not interfere: every step changes the      *)
(* Collected State of one request only, and changes it to a state that     *)
(* request could reach from its own state by that step when running alone. *)
SoloSuccessors(s, p) ==
    IF p = "planner"
    THEN {Merge(s, planner(s, d).update) : d \in DecisionsFor(s)}
    ELSE IF p = "tools"
    THEN {Merge(s, tools(s, ext)) : ext \in ExtTwo(s)}
    ELSE {}

C24_RequestsDoNotInterfere ==
    [][ /\ (state' = state /\ pc' = pc) \/ peer' = peer
        /\ (state' # state \/ pc' # pc) => state' \in SoloSuccessors(state, pc)
        /\ peer' # peer => peer'.state \in SoloSuccessors(peer.state, peer.pc) ]_vars

C24_Witness ==
    /\ pc = "__end__"
    /\ peer.pc = "tools"
    /\ ~OutputEmpty(state)
    /\ Len(state.stories) = 1
    /\ peer.state.stories = <<>>
    /\ peer.state.iteration > 1
    /\ peer.state.module_name = OtherModule

(* C25: a terminated run is a failure or a success and never ambiguous: in *)
(* every terminal state exactly one of "markdown_output is non-empty" and  *)
(* "error_message is non-null" holds.                                      *)
C25_TerminalIsSuccessOrFailure ==
    pc = "__end__" => (~OutputEmpty(state)) # (state.error_message # None)

(* C25 witness: a run has ended at the ceiling with the error message and  *)
(* an empty output, after the tools node has run on every pass.            *)
C25_Witness ==
    /\ pc = "__end__"
    /\ OutputEmpty(state)
    /\ state.error_message = InsufficientData
    /\ nTools = MaxIterations

(* The LLM fallback is consulted in no run from the initial state: the     *)
(* rule chain decides every pass (supports C25).                           *)
RunsNeverConsultLLM == pc = "planner" => ~LLMConsulted(state)

(* C26: the loop repeats only until gathering_complete becomes true: once *)
(* gathering_complete is true in the Collected State, no further retrieval *)
(* action (search_stories, search_docs, find_relationships,                *)
(* fetch_test_details) is selected or executed in that run.                *)
RetrievalActions ==
    {"search_stories", "search_docs", "find_relationships", "fetch_test_details"}

C26_NoRetrievalAfterGatheringComplete ==
    (state.gathering_complete /\ pc = "tools")
        => state.current_action \notin RetrievalActions

(* C27: the three entity sequences are append-only: after any planner or *)
(* tools step, the previous value of stories, documentation and test_cases *)
(* is a prefix of the new value (no element is removed, reordered or       *)
(* replaced).                                                              *)
IsPrefix(a, b) == Len(a) <= Len(b) /\ SubSeq(b, 1, Len(a)) = a

C27_EntitySequencesAppendOnly ==
    [][ /\ IsPrefix(state.stories, state'.stories)
        /\ IsPrefix(state.documentation, state'.documentation)
        /\ IsPrefix(state.test_cases, state'.test_cases) ]_vars

(* C27 witness: the tools node has run search_docs on a state that already *)
(* held a document, and one new document follows the old one.              *)
C27_Witness ==
    /\ last.node = "tools"
    /\ nTools = 1
    /\ state.current_action = "search_docs"
    /\ Len(state.documentation) = 2
    /\ state.documentation[1] = 1
    /\ state.total_artifacts_found = 1

(* C28: a planner step has no effect beyond its returned delta: it leaves *)
(* stories, documentation, test_cases, story_test_map,                     *)
(* total_artifacts_found, markdown_output and module_name unchanged, and   *)
(* changes only current_action, reasoning, iteration, gathering_complete,  *)
(* error_message (and queries_made in the fallback).                       *)
PlannerWritable ==
    {"current_action", "reasoning", "iteration", "gathering_complete",
     "error_message", "queries_made"}

C28_PlannerFrame ==
    [][ pc = "planner"
        => /\ \A k \in DOMAIN state \ PlannerWritable : state'[k] = state[k]
           /\ state'.queries_made # state.queries_made => last'.llm ]_vars

(* C28 witness: the planner's fallback has recorded a query on a state     *)
(* that holds stories, documentation, test cases and a relationship map.   *)
C28_Witness ==
    /\ last.node = "planner" /\ last.llm /\ nPlanner = 1 /\ nTools = 0
    /\ Len(state.queries_made) = 1
    /\ Len(state.stories) = 1 /\ Len(state.documentation) = 1
    /\ Len(state.test_cases) = 1 /\ ~MapEmpty(state)
    /\ state.total_artifacts_found < MinArtifacts

(* C29: within one run, steps are strictly sequential and alternate: the  *)
(* first step is a planner step, every tools step is immediately preceded  *)
(* by a planner step that selected its action and immediately followed by  *)
(* a planner step, and no two steps of one run are in progress at the same *)
(* time (the run is at exactly one of planner, tools and __end__).         *)
C29_StepsAlternate ==
    [][ /\ pc \in {"planner", "tools", "__end__"}
        /\ last.node = "none" => last'.node = "planner"
        /\ last'.node = "tools"
             => /\ last.node = "planner"
                /\ pc = "tools"
                /\ state.current_action \in Actions \ {"complete"}
                /\ pc' = "planner"
        /\ (last'.node = "planner" /\ pc' = "tools")
             => \E d \in DecisionsFor(state) :
                  /\ planner(state, d).goto = "tools"
                  /\ state'.current_action = planner(state, d).update.current_action
        /\ last.node = "tools" => last'.node = "planner"
        /\ nPlanner' - nTools' \in {0, 1} ]_vars

(* C29 witness: the fourth tools step of a run has just returned.          *)
C29_Witness ==
    /\ last.node = "tools" /\ pc = "planner"
    /\ nPlanner = 4 /\ nTools = 4
    /\ state.current_action = "fetch_test_details"

(* C30: the relationship resolver is one hop only: for each resolved      *)
(* story, the mapped list is exactly that story record's own tested_by     *)
(* attribute; links recorded on the referenced test cases or on related    *)
(* stories (relates_to, linked_stories) are never followed or added.       *)
C30_ResolverOneHop ==
    (probe.fn = "find_test_cases_by_stories" /\ probe.done)
        => /\ DOMAIN probe.result \subseteq Range(probe.story_ids)
           /\ \A sid \in DOMAIN probe.result :
                probe.result[sid] = probe.tested_by[sid]

(* C30 witness: story 1 was resolved to its own test case although it      *)
(* relates to story 2, whose test case links back to story 2; story 2 was  *)
(* not asked for and is not in the map.                                    *)
C30_Witness ==
    /\ probe.fn = "find_test_cases_by_stories" /\ probe.done
    /\ probe.story_ids = <<1>>
    /\ probe.index = {1, 2}
    /\ probe.relates_to[1] = <<2>>
    /\ probe.tested_by[1] = <<1>>
    /\ probe.tested_by[2] = <<2>>
    /\ probe.linked_stories[2] = <<2>>
    /\ DOMAIN probe.result = {1}
    /\ probe.result[1] = <<1>>

(* C31: the planner is deterministic on its rule-based branches: two      *)
(* planner invocations on equal Collected States in which some rule        *)
(* matches return the same action, the same routing target and the same    *)
(* state delta, whatever the text-generation capability would answer.      *)
C31_RuleBranchesDeterministic ==
    (pc = "planner" /\ ~LLMConsulted(state))
        => \A d \in Decisions :
              /\ planner(state, d).goto = planner(state, NoDecision).goto
              /\ planner(state, d).update = planner(state, NoDecision).update

(* C31 witness: a rule has just selected fetch_test_details on a state     *)
(* that was handed to the planner with its map already filled.             *)
C31_Witness ==
    /\ last.node = "planner" /\ ~last.llm
    /\ nPlanner = 1 /\ nTools = 0
    /\ pc = "tools"
    /\ state.current_action = "fetch_test_details"

(* C32: in every run started from create_initial_state the planner's LLM  *)
(* fallback branch is never reached: in every reachable state one of the   *)
(* rule-based branches (output populated, ceiling, or rules 3-7) matches,  *)
(* so every executed action is chosen by a rule.                           *)
C32_FallbackNeverReached ==
    /\ pc = "planner"
         => \/ ~OutputEmpty(state)
            \/ AtCeiling(state)
            \/ RuleAction(state) \in Actions
    /\ ~last.llm

(* C32 witness: with one story, one document and one test case collected   *)
(* the sufficiency rule, the last before the fallback, has selected        *)
(* generate_markdown at exactly the minimum count.                         *)
C32_Witness ==
    /\ pc = "tools" /\ last.node = "planner" /\ ~last.llm
    /\ state.current_action = "generate_markdown"
    /\ ~AtCeiling(state)
    /\ state.total_artifacts_found = MinArtifacts
    /\ Len(state.test_cases) = 1

(* C33: validate_state holds in every reachable state of a run started    *)
(* from create_initial_state with a non-empty module name: iteration <=    *)
(* max_iterations, module_name is non-empty, current_action is one of the  *)
(* seven declared action tags (never search_test_cases), and               *)
(* gathering_complete implies stories is non-empty.                        *)
C33_ValidateStateHolds ==
    /\ validate_state(state) = <<TRUE, None>>
    /\ state.iteration <= state.max_iterations
    /\ state.module_name # ""
    /\ state.current_action # "search_test_cases"
    /\ state.gathering_complete => Len(state.stories) > 0

(* C33 witness: fetch_test_details has taken its search fallback, which    *)
(* set gathering_complete, and the state still carries the tag             *)
(* fetch_test_details.                                                     *)
C33_Witness ==
    /\ last.node = "tools" /\ pc = "planner"
    /\ state.current_action = "fetch_test_details"
    /\ state.gathering_complete
    /\ Len(state.stories) > 0
    /\ OutputEmpty(state)

(* C34: the output is rendered at most once per run: the generate_markdown *)
(* step always stores a non-empty document, the planner step that follows  *)
(* it always terminates with success, and markdown_output, once non-empty, *)
(* is never changed again.                                                 *)
C34_RenderedOnce ==
    [][ /\ (pc = "tools" /\ state.current_action = "generate_markdown")
             => (OutputEmpty(state) /\ ~OutputEmpty(state'))
        /\ (pc = "planner" /\ last.node = "tools"
              /\ state.current_action = "generate_markdown")
             => /\ pc' = "__end__"
                /\ state'.error_message = None
                /\ state'.current_action = "complete"
        /\ ~OutputEmpty(state) => state'.markdown_output = state.markdown_output ]_vars

(* C34 witness: a run has ended right after its fifth tools step, the      *)
(* rendering, with the document stored and no error.                       *)
C34_Witness ==
    /\ pc = "__end__" /\ last.node = "planner"
    /\ nTools = 5 /\ nPlanner = 6
    /\ ~OutputEmpty(state)
    /\ state.markdown_output = generate_training_markdown(state)
    /\ state.error_message = None

(* C35: collection order is an invariant of every reachable state:        *)
(* test_cases non-empty implies story_test_map non-empty, story_test_map   *)
(* non-empty implies documentation non-empty, and documentation non-empty  *)
(* implies stories non-empty.                                              *)
C35_CollectionOrder ==
    /\ Len(state.test_cases) > 0 => ~MapEmpty(state)
    /\ ~MapEmpty(state) => Len(state.documentation) > 0
    /\ Len(state.documentation) > 0 => Len(state.stories) > 0

(* C35 witness: all four collections are filled, the test cases last.      *)
C35_Witness ==
    /\ last.node = "tools"
    /\ state.current_action = "fetch_test_details"
    /\ Len(state.test_cases) > 0
    /\ ~MapEmpty(state)
    /\ Len(state.documentation) > 0
    /\ Len(state.stories) > 0
    /\ OutputEmpty(state)

(* C36: llm_filter_results never invents or over-selects: for every       *)
(* candidate list and every text-generation response, each returned entity *)
(* is an element of the candidate list, the number returned is at most     *)
(* max_results, indices at or beyond the number of candidates are skipped  *)
(* rather than raising, and an empty candidate list returns ([], None)     *)
(* without invoking the text-generation capability.                        *)
InRangePicks(xs, indices) ==
    LET valid == SelectSeq(indices, LAMBDA i : i < Len(xs))
    IN [k \in 1..Len(valid) |-> xs[valid[k] + 1]]

C36_FilterSelectsFromCandidates ==
    call.done
    => /\ Range(call.result.filtered) \subseteq Range(call.search_results)
       /\ Len(call.result.filtered) <= call.max_results
       /\ ( /\ call.resp.kind = "ok"
            /\ call.search_results # <<>>
            /\ \A i \in 1..Len(call.resp.relevant_indices) :
                  call.resp.relevant_indices[i] >= 0 )
          => LET picks == InRangePicks(call.search_results, call.resp.relevant_indices)
             IN /\ ~call.result.raised
                /\ call.result.filtered =
                     SubSeq(picks, 1, Min(Len(picks), call.max_results))
       /\ call.search_results = <<>> => call.result = Returned(<<>>, None)

(* C36 witness: of the indices 2 and 0 on two candidates the first is      *)
(* skipped and the second selects the first candidate.                     *)
C36_Witness ==
    /\ call.done
    /\ call.search_results = <<1, 2>>
    /\ call.resp.kind = "ok"
    /\ call.resp.relevant_indices = <<2, 0>>
    /\ call.max_results = MaxResults
    /\ call.result.filtered = <<1>>
    /\ ~call.result.raised

(* C37: after a fetch_test_details step that fetches by identifier,       *)
(* test_cases contains each linked test case at most once even when        *)
(* several stories in story_test_map reference the same test identifier,   *)
(* and total_artifacts_found grows by the number of distinct test cases    *)
(* retrieved.                                                              *)
Distinct(xs) == \A i, j \in 1..Len(xs) : i # j => xs[i] # xs[j]

C37_FetchedOncePerIdentifier ==
    [][ ( /\ pc = "tools"
          /\ state.current_action = "fetch_test_details"
          /\ LinkedTestIds(state) # {} )
        => /\ Distinct(state'.test_cases)
           /\ Range(state'.test_cases) \subseteq
                 Range(state.test_cases) \cup LinkedTestIds(state)
           /\ state'.total_artifacts_found =
                 state.total_artifacts_found
                   + Cardinality(Range(state'.test_cases) \ Range(state.test_cases)) ]_vars

(* C37 witness: both stories name test case 2, story 1 also names test     *)
(* case 1, the index held test case 2 only: it was fetched once and        *)
(* counted once.                                                           *)
C37_Witness ==
    /\ last.node = "tools" /\ nTools = 4
    /\ state.current_action = "fetch_test_details"
    /\ state.story_test_map[1] = <<1, 2>>
    /\ state.story_test_map[2] = <<2>>
    /\ state.test_cases = <<2>>
    /\ state.total_artifacts_found = 4

(* C38: module_name is changed only by a search_stories step that         *)
(* selected at least one story and whose filter reported a non-empty label *)
(* different from the current name; every other step (search_stories with  *)
(* no selected story included) leaves module_name unchanged, and           *)
(* module_name is never set to an empty value.                             *)
C38_ModuleNameFrame ==
    [][ /\ state'.module_name # state.module_name
             => /\ pc = "tools"
                /\ state.current_action = "search_stories"
                /\ Len(state'.stories) > Len(state.stories)
                /\ Truthy(state'.module_name)
        /\ Truthy(state.module_name) => Truthy(state'.module_name) ]_vars

(* C38 witness: the first story search kept a story and its filter         *)
(* reported another module, which is now the module name.                  *)
C38_Witness ==
    /\ last.node = "tools" /\ nTools = 1
    /\ state.current_action = "search_stories"
    /\ Len(state.stories) = 1
    /\ state.module_name = OtherModule

====
